---- MODULE Spec2Model ----
(***************************************************************************)
(* A model of scripts/etl.py: one run fetches the parking-availability     *)
(* response, extracts raw records from JSON or from the HTML table,        *)
(* canonicalises carpark names, joins the capacity table, computes         *)
(* occupancy, overwrites latest.csv and read-modify-rewrites history.csv.  *)
(*                                                                         *)
(* Text is a sequence of code points, each written as a short string.      *)
(* A response body is a sequence of lexical tokens (JSON punctuation,      *)
(* JSON atoms, other text, HTML table rows).                               *)
(***************************************************************************)
EXTENDS Integers, Sequences, FiniteSets, TLC

(***************************************************************************)
(* Bounds of the model.                                                    *)
(***************************************************************************)
\* runs the scheduler starts, one after the other
MaxRuns == 3
\* available-space counts the upstream reports lie in 0..MaxAvail
MaxAvail == 3
\* totals listed in capacity_lookup.csv lie in -1..MaxTotal
MaxTotal == 2

(***************************************************************************)
(* Code points.  "a_acute" stands for U+00E1 and so on, "comb_acute" for   *)
(* the combining acute accent U+0301, "nbsp" for U+00A0.                   *)
(***************************************************************************)
UpperChars ==
    <<"A","B","C","D","E","F","G","H","I","J","K","L","M",
      "N","O","P","Q","R","S","T","U","V","W","X","Y","Z">>
LowerChars ==
    <<"a","b","c","d","e","f","g","h","i","j","k","l","m",
      "n","o","p","q","r","s","t","u","v","w","x","y","z">>
DigitChars == <<"0","1","2","3","4","5","6","7","8","9">>

\* str.isspace of one code point
IsSpace(c) == c \in {" ", "tab", "nbsp"}

\* unicodedata.combining(ch) # 0
combining(c) == c \in {"comb_acute", "comb_macron"}

\* unicodedata.normalize("NFKD", ch) of one code point
Decompose(c) ==
    CASE c = "a_acute"  -> <<"a", "comb_acute">>
      [] c = "A_acute"  -> <<"A", "comb_acute">>
      [] c = "i_acute"  -> <<"i", "comb_acute">>
      [] c = "o_macron" -> <<"o", "comb_macron">>
      [] c = "nbsp"     -> <<" ">>
      [] OTHER          -> <<c>>

\* str.lower of one code point
LowerChar(c) ==
    IF \E i \in 1..Len(UpperChars) : UpperChars[i] = c
    THEN LowerChars[CHOOSE i \in 1..Len(UpperChars) : UpperChars[i] = c]
    ELSE c

RECURSIVE LStrip(_)
LStrip(s) ==
    IF s = <<>> THEN <<>>
    ELSE IF IsSpace(Head(s)) THEN LStrip(Tail(s)) ELSE s

RECURSIVE RStrip(_)
RStrip(s) ==
    IF s = <<>> THEN <<>>
    ELSE IF IsSpace(s[Len(s)]) THEN RStrip(SubSeq(s, 1, Len(s) - 1)) ELSE s

\* str.strip()
Strip(s) == RStrip(LStrip(s))

\* " ".join(s.split()) of a stripped text: every whitespace run becomes one space
RECURSIVE JoinSplit(_)
JoinSplit(s) ==
    IF s = <<>> THEN <<>>
    ELSE IF IsSpace(Head(s)) THEN <<" ">> \o JoinSplit(LStrip(s))
    ELSE <<Head(s)>> \o JoinSplit(Tail(s))

RECURSIVE NFKD(_)
NFKD(s) == IF s = <<>> THEN <<>> ELSE Decompose(Head(s)) \o NFKD(Tail(s))

RECURSIVE DropCombining(_)
DropCombining(s) ==
    IF s = <<>> THEN <<>>
    ELSE IF combining(Head(s)) THEN DropCombining(Tail(s))
    ELSE <<Head(s)>> \o DropCombining(Tail(s))

Lower(s) == [i \in 1..Len(s) |-> LowerChar(s[i])]

\* _norm(s): strip, collapse whitespace, NFKD, drop combining marks, lowercase
_norm(s) == Lower(DropCombining(NFKD(JoinSplit(Strip(s)))))

(***************************************************************************)
(* The name tables of the program.                                         *)
(***************************************************************************)
VictoriaSt     == <<"V","i","c","t","o","r","i","a"," ","S","t">>
VictoriaStreet == <<"V","i","c","t","o","r","i","a"," ","S","t","r","e","e","t">>
Civic          == <<"C","i","v","i","c">>
Downtown       == <<"D","o","w","n","t","o","w","n">>
Ronwood        == <<"R","o","n","w","o","o","d">>
TokaPuia       == <<"T","o","k","a"," ","P","u","i","a">>
IGNORE         == <<"_","_","I","G","N","O","R","E","_","_">>

\* ALIASES as the list of its (key, value) items, in the order of the literal
ALIASES ==
    << <<_norm(VictoriaSt), VictoriaStreet>>,
       <<_norm(VictoriaStreet), VictoriaStreet>>,
       <<_norm(Civic), Civic>>,
       <<_norm(Downtown), Downtown>>,
       <<_norm(Ronwood), Ronwood>>,
       <<_norm(TokaPuia), TokaPuia>> >>

IGNORE_CARPARKS == { <<"a","l","b","e","r","t"," ","s","t","r","e","e","t">> }

STOP_COLLECTING == { _norm(Downtown) }

\* ALIASES.get(k, default)
AliasGet(k, default) ==
    IF \E i \in 1..Len(ALIASES) : ALIASES[i][1] = k
    THEN ALIASES[CHOOSE i \in 1..Len(ALIASES) : ALIASES[i][1] = k][2]
    ELSE default

\* canonical_name looking the name up without _norm's folding
canonical_name_unfolded(raw_name) ==
    LET k == Lower(Strip(raw_name))
    IN  IF k \in IGNORE_CARPARKS THEN IGNORE
        ELSE AliasGet(k, Strip(raw_name))

canonical_name(raw_name) ==
    LET k == _norm(raw_name)
    IN  IF k \in IGNORE_CARPARKS THEN IGNORE
        ELSE AliasGet(k, Strip(raw_name))

(***************************************************************************)
(* Python values: None, int, str, list, dict.  A dict keeps its items in   *)
(* insertion order as parallel lists of keys and values.                   *)
(***************************************************************************)
None        == [k |-> "none", n |-> 0, s |-> <<>>, keys |-> <<>>, items |-> <<>>]
IntV(n)     == [k |-> "int",  n |-> n, s |-> <<>>, keys |-> <<>>, items |-> <<>>]
StrV(s)     == [k |-> "str",  n |-> 0, s |-> s,    keys |-> <<>>, items |-> <<>>]
ListV(xs)   == [k |-> "list", n |-> 0, s |-> <<>>, keys |-> <<>>, items |-> xs]
DictV(ks, xs) == [k |-> "dict", n |-> 0, s |-> <<>>, keys |-> ks, items |-> xs]

\* bool(v)
Truthy(v) ==
    CASE v.k = "none" -> FALSE
      [] v.k = "int"  -> v.n # 0
      [] v.k = "str"  -> v.s # <<>>
      [] v.k = "list" -> v.items # <<>>
      [] v.k = "dict" -> v.keys # <<>>

\* a or b
PyOr(a, b) == IF Truthy(a) THEN a ELSE b

\* key in d
HasKey(d, key) == \E i \in 1..Len(d.keys) : d.keys[i] = key

\* d.get(key): the last item stored under the key, None when there is none
DictGet(d, key) ==
    IF HasKey(d, key)
    THEN LET last == CHOOSE i \in 1..Len(d.keys) :
                        /\ d.keys[i] = key
                        /\ \A j \in (i+1)..Len(d.keys) : d.keys[j] # key
         IN  d.items[last]
    ELSE None

IsDigit(c) == \E i \in 1..10 : DigitChars[i] = c
DigitVal(c) == (CHOOSE i \in 1..10 : DigitChars[i] = c) - 1

\* the value of a non-empty text of decimal digits
RECURSIVE DigitsToInt(_)
DigitsToInt(s) ==
    IF Len(s) = 1 THEN DigitVal(s[1])
    ELSE 10 * DigitsToInt(SubSeq(s, 1, Len(s) - 1)) + DigitVal(s[Len(s)])

AllDigits(s) == s # <<>> /\ \A i \in 1..Len(s) : IsDigit(s[i])

\* int(text): surrounding whitespace and one sign are accepted
IntOfText(s) ==
    LET t    == Strip(s)
        sign == t # <<>> /\ t[1] \in {"-", "+"}
        d    == IF sign THEN Tail(t) ELSE t
    IN  IF AllDigits(d)
        THEN [ok |-> TRUE,
              n  |-> IF sign /\ t[1] = "-" THEN 0 - DigitsToInt(d) ELSE DigitsToInt(d)]
        ELSE [ok |-> FALSE, n |-> 0]

\* int(v): ok is FALSE where Python raises TypeError or ValueError
PyInt(v) ==
    CASE v.k = "int" -> [ok |-> TRUE, n |-> v.n]
      [] v.k = "str" -> IntOfText(v.s)
      [] OTHER       -> [ok |-> FALSE, n |-> 0]

(***************************************************************************)
(* Response bodies, as token sequences.                                    *)
(*   "{" "}" "[" "]" ","   JSON punctuation                                *)
(*   "key"   a member name with its colon, e.g. "data":                    *)
(*   "atom"  a JSON number, string or null (field v)                       *)
(*   "ws"    whitespace                                                    *)
(*   "text"  any other text (markup, words)                                *)
(*   "row"   a .divTableRow element inside .divTable, with the texts of    *)
(*           its .divTableCell children (field cells)                      *)
(***************************************************************************)
Tok(t)        == [t |-> t,      key |-> "",  v |-> None, cells |-> <<>>]
KeyTok(key)   == [t |-> "key",  key |-> key, v |-> None, cells |-> <<>>]
AtomTok(v)    == [t |-> "atom", key |-> "",  v |-> v,    cells |-> <<>>]
RowTok(cells) == [t |-> "row",  key |-> "",  v |-> None, cells |-> cells]

NoParse == [ok |-> FALSE, v |-> None, i |-> 0]

RECURSIVE ParseValue(_, _)
RECURSIVE ParseElems(_, _, _)
RECURSIVE ParseMembers(_, _, _, _)

\* one JSON value starting at token i; field i of the result is the next token
ParseValue(t, i) ==
    IF i > Len(t) THEN NoParse
    ELSE CASE t[i].t = "atom" -> [ok |-> TRUE, v |-> t[i].v, i |-> i + 1]
           [] t[i].t = "["    ->
                IF i + 1 <= Len(t) /\ t[i+1].t = "]"
                THEN [ok |-> TRUE, v |-> ListV(<<>>), i |-> i + 2]
                ELSE ParseElems(t, i + 1, <<>>)
           [] t[i].t = "{"    ->
                IF i + 1 <= Len(t) /\ t[i+1].t = "}"
                THEN [ok |-> TRUE, v |-> DictV(<<>>, <<>>), i |-> i + 2]
                ELSE ParseMembers(t, i + 1, <<>>, <<>>)
           [] OTHER           -> NoParse

ParseElems(t, i, acc) ==
    LET r == ParseValue(t, i)
    IN  IF ~r.ok \/ r.i > Len(t) THEN NoParse
        ELSE CASE t[r.i].t = "," -> ParseElems(t, r.i + 1, Append(acc, r.v))
               [] t[r.i].t = "]" ->
                    [ok |-> TRUE, v |-> ListV(Append(acc, r.v)), i |-> r.i + 1]
               [] OTHER          -> NoParse

ParseMembers(t, i, ks, xs) ==
    IF i > Len(t) \/ t[i].t # "key" THEN NoParse
    ELSE LET r == ParseValue(t, i + 1)
         IN  IF ~r.ok \/ r.i > Len(t) THEN NoParse
             ELSE CASE t[r.i].t = "," ->
                         ParseMembers(t, r.i + 1, Append(ks, t[i].key), Append(xs, r.v))
                    [] t[r.i].t = "}" ->
                         [ok |-> TRUE,
                          v  |-> DictV(Append(ks, t[i].key), Append(xs, r.v)),
                          i  |-> r.i + 1]
                    [] OTHER          -> NoParse

IsWs(tok) == tok.t = "ws"
NotWs(tok) == tok.t # "ws"

\* json.loads(txt): the whole text must be one value; whitespace between
\* tokens is insignificant
json_loads(txt) ==
    LET t == SelectSeq(txt, NotWs)
        r == ParseValue(t, 1)
    IN  IF r.ok /\ r.i = Len(t) + 1
        THEN [ok |-> TRUE, v |-> r.v]
        ELSE [ok |-> FALSE, v |-> None]

RECURSIVE LStripToks(_)
LStripToks(s) ==
    IF s = <<>> THEN <<>>
    ELSE IF IsWs(Head(s)) THEN LStripToks(Tail(s)) ELSE s

RECURSIVE RStripToks(_)
RStripToks(s) ==
    IF s = <<>> THEN <<>>
    ELSE IF IsWs(s[Len(s)]) THEN RStripToks(SubSeq(s, 1, Len(s) - 1)) ELSE s

\* txt.find(c), txt.rfind(c): token positions from 1, 0 when there is none
Find(txt, c) ==
    IF \E i \in 1..Len(txt) : txt[i].t = c
    THEN CHOOSE i \in 1..Len(txt) :
            txt[i].t = c /\ \A j \in 1..(i-1) : txt[j].t # c
    ELSE 0

RFind(txt, c) ==
    IF \E i \in 1..Len(txt) : txt[i].t = c
    THEN CHOOSE i \in 1..Len(txt) :
            txt[i].t = c /\ \A j \in (i+1)..Len(txt) : txt[j].t # c
    ELSE 0

\* try_parse_json(resp_text): the parsed value, or None
try_parse_json(resp_text) ==
    LET txt       == RStripToks(LStripToks(resp_text))
        obj_start == Find(txt, "{")
        obj_end   == RFind(txt, "}")
        arr_start == Find(txt, "[")
        arr_end   == RFind(txt, "]")
        whole     == json_loads(txt)
        obj       == json_loads(SubSeq(txt, obj_start, obj_end))
        arr       == json_loads(SubSeq(txt, arr_start, arr_end))
    IN  IF txt # <<>> /\ txt[1].t \in {"{", "["}
        THEN whole.v
        ELSE IF obj_start # 0 /\ obj_end > obj_start /\ obj.ok THEN obj.v
        ELSE IF arr_start # 0 /\ arr_end > arr_start /\ arr.ok THEN arr.v
        ELSE None


(***************************************************************************)
(* Extraction of the raw rows, run() lines 145-164.                        *)
(***************************************************************************)
CONTAINER_KEYS == <<"data", "results", "items", "carParks", "CarParks", "Result">>

RawRow(carpark, option, available) ==
    [carpark |-> carpark, parking_option |-> option, available_spaces |-> available]

\* the dict appended for one JSON record
RecRow(rec) ==
    RawRow(PyOr(PyOr(DictGet(rec, "carParkName"), DictGet(rec, "name")), StrV(<<>>)),
           PyOr(PyOr(DictGet(rec, "category"), DictGet(rec, "parkingOption")), StrV(<<>>)),
           PyOr(PyOr(DictGet(rec, "availableSpaces"), DictGet(rec, "available")), None))

\* the list the loops of lines 145-161 iterate over: the array itself, or the
\* value of the first container key that is present and holds a list
RecordList(data) ==
    CASE data.k = "list" -> data.items
      [] data.k = "dict" ->
           LET hit(i) == /\ HasKey(data, CONTAINER_KEYS[i])
                         /\ DictGet(data, CONTAINER_KEYS[i]).k = "list"
           IN  IF \E i \in 1..Len(CONTAINER_KEYS) : hit(i)
               THEN DictGet(data, CONTAINER_KEYS[
                        CHOOSE i \in 1..Len(CONTAINER_KEYS) :
                            hit(i) /\ \A j \in 1..(i-1) : ~hit(j)]).items
               ELSE <<>>
      [] OTHER -> <<>>

\* rec.get raises AttributeError on a record that is no dict
JsonRowsRaise(data) ==
    \E i \in 1..Len(RecordList(data)) : RecordList(data)[i].k # "dict"

JsonRows(data) ==
    LET recs == RecordList(data)
    IN  [i \in 1..Len(recs) |-> RecRow(recs[i])]

\* re.sub(r"[^\d]", "", text)
RECURSIVE OnlyDigits(_)
OnlyDigits(s) ==
    IF s = <<>> THEN <<>>
    ELSE IF IsDigit(Head(s)) THEN <<Head(s)>> \o OnlyDigits(Tail(s))
    ELSE OnlyDigits(Tail(s))

\* the row parse_html_table appends for one .divTableRow with three cells
HtmlRow(cells) ==
    LET digits == OnlyDigits(cells[3])
    IN  RawRow(StrV(cells[1]), StrV(cells[2]),
               IF digits = <<>> THEN None ELSE IntV(DigitsToInt(digits)))

RECURSIVE parse_html_table(_)
parse_html_table(resp_text) ==
    IF resp_text = <<>> THEN <<>>
    ELSE LET tok   == Head(resp_text)
             cells == [i \in 1..Len(tok.cells) |-> Strip(tok.cells[i])]
             rest  == parse_html_table(Tail(resp_text))
         IN  IF tok.t # "row" \/ Len(cells) < 3 THEN rest
             ELSE IF _norm(cells[1]) \in IGNORE_CARPARKS THEN rest
             ELSE <<HtmlRow(cells)>> \o rest

\* lines 163-164: the JSON rows, or the HTML rows when there are none
ExtractRows(data, body) ==
    IF JsonRows(data) # <<>> THEN JsonRows(data) ELSE parse_html_table(body)

(***************************************************************************)
(* capacity_lookup.csv: absent, or its data rows as (carpark, total_spaces)*)
(* texts.  The lookup is the list of the (name, total) items stored.       *)
(***************************************************************************)
NoFile == [exists |-> FALSE, header |-> FALSE, rows |-> <<>>]

CapRow(carpark, total) == [carpark |-> carpark, total_spaces |-> total]

RECURSIVE load_capacity_lookup(_)
load_capacity_lookup(file) ==
    IF ~file.exists \/ file.rows = <<>> THEN <<>>
    ELSE LET n       == Len(file.rows)
             row     == file.rows[n]
             name    == Strip(row.carpark)
             total_i == IntOfText(row.total_spaces)
             before  == load_capacity_lookup(
                            [file EXCEPT !.rows = SubSeq(file.rows, 1, n - 1)])
         IN  IF name # <<>> /\ total_i.ok /\ total_i.n # 0
             THEN Append(before, <<name, total_i.n>>)
             ELSE before

\* capacity.get(canon): the last item stored under the name
CapGet(capacity, canon) ==
    IF \E i \in 1..Len(capacity) : capacity[i][1] = canon
    THEN IntV(capacity[CHOOSE i \in 1..Len(capacity) :
                 /\ capacity[i][1] = canon
                 /\ \A j \in (i+1)..Len(capacity) : capacity[j][1] # canon][2])
    ELSE None

(***************************************************************************)
(* Enrichment, run() lines 168-196.  A float is held in ten-thousandths.   *)
(***************************************************************************)
FloatV(n) == [k |-> "float", n |-> n, s |-> <<>>, keys |-> <<>>, items |-> <<>>]
NaN       == [k |-> "nan",   n |-> 0, s |-> <<>>, keys |-> <<>>, items |-> <<>>]

\* round(num / den, 4) in ten-thousandths, ties to even; den # 0
Round4(num, den) ==
    LET a == IF den < 0 THEN 0 - num ELSE num
        b == IF den < 0 THEN 0 - den ELSE den
        q == (a * 10000) \div b
        r == (a * 10000) % b
    IN  IF 2 * r < b THEN q
        ELSE IF 2 * r > b THEN q + 1
        ELSE IF q % 2 = 0 THEN q ELSE q + 1

\* lines 180-185 with the guard written "if total and available"
OccupancyIfTruthy(total, available) ==
    IF /\ Truthy(total) /\ Truthy(available)
       /\ PyInt(total).ok /\ PyInt(available).ok
    THEN FloatV(Round4(PyInt(total).n - PyInt(available).n, PyInt(total).n))
    ELSE None

\* lines 180-185
Occupancy(total, available) ==
    IF /\ total # None /\ total # IntV(0)
       /\ available # None /\ available # StrV(<<>>)
       /\ PyInt(total).ok /\ PyInt(available).ok
    THEN FloatV(Round4(PyInt(total).n - PyInt(available).n, PyInt(total).n))
    ELSE None

\* lines 173-176 without the stop-collecting test
SkippedIgnoreOnly(canon) == canon = IGNORE

\* lines 173-176: the rows the loop skips
Skipped(canon) == canon = IGNORE \/ _norm(canon) \in STOP_COLLECTING

\* lines 187-196
EnrichedRow(ts_utc, canon, r, capacity) ==
    [timestamp_utc       |-> StrV(ts_utc),
     carpark             |-> StrV(canon),
     available_spaces    |-> r.available_spaces,
     total_spaces        |-> CapGet(capacity, canon),
     occupancy           |-> Occupancy(CapGet(capacity, canon), r.available_spaces),
     status              |-> StrV(<<>>),
     parking_option      |-> r.parking_option,
     source_last_updated |-> StrV(<<>>)]

\* _norm raises AttributeError on a name that is no str
EnrichRaises(rows) == \E i \in 1..Len(rows) : rows[i].carpark.k # "str"

\* the value of canon in each iteration of the loop
Canons(rows) == [i \in 1..Len(rows) |-> canonical_name(rows[i].carpark.s)]

RECURSIVE NormRows(_, _, _)
NormRows(ts_utc, rows, capacity) ==
    IF rows = <<>> THEN <<>>
    ELSE LET n      == Len(rows)
             canon  == canonical_name(rows[n].carpark.s)
             before == NormRows(ts_utc, SubSeq(rows, 1, n - 1), capacity)
         IN  IF Skipped(canon) THEN before
             ELSE Append(before, EnrichedRow(ts_utc, canon, rows[n], capacity))

(***************************************************************************)
(* pandas.  A frame made from an empty list has no columns; to_csv then    *)
(* writes a file with an empty header line, which read_csv refuses         *)
(* (EmptyDataError).  A cell is held by its value: the empty cell, a       *)
(* number, or a text; how a number is formatted is not modelled.           *)
(***************************************************************************)
COLUMNS ==
    {"timestamp_utc", "carpark", "available_spaces", "total_spaces",
     "occupancy", "status", "parking_option", "source_last_updated"}

EmptyCell == None

\* a value as to_csv writes it
CsvCell(v) ==
    CASE v.k \in {"none", "nan"} -> EmptyCell
      [] v.k = "str" ->
           IF v.s = <<>> THEN EmptyCell
           ELSE IF IntOfText(v.s).ok THEN IntV(IntOfText(v.s).n)
           ELSE v
      [] OTHER -> v

\* a cell as read_csv reads it
FrameCell(c) == IF c = EmptyCell THEN NaN ELSE c

DataFrame(norm_rows) == [cols |-> norm_rows # <<>>, rows |-> norm_rows]

to_csv(df) ==
    [exists |-> TRUE,
     header |-> df.cols,
     rows   |-> [i \in 1..Len(df.rows) |->
                    [c \in COLUMNS |-> CsvCell(df.rows[i][c])]]]

\* pd.read_csv raises EmptyDataError on a file without columns
ReadCsvRaises(file) == ~file.header

read_csv(file) ==
    [cols |-> TRUE,
     rows |-> [i \in 1..Len(file.rows) |->
                  [c \in COLUMNS |-> FrameCell(file.rows[i][c])]]]

\* pd.concat([old, df], ignore_index=True)
concat(old, df) == [cols |-> old.cols \/ df.cols, rows |-> old.rows \o df.rows]


(***************************************************************************)
(* Inputs: the responses the endpoint may send, and the capacity files the *)
(* operator may have installed.                                            *)
(***************************************************************************)
RECURSIVE NumText(_)
NumText(n) ==
    IF n < 10 THEN <<DigitChars[n + 1]>>
    ELSE NumText(n \div 10) \o <<DigitChars[(n % 10) + 1]>>

IntText(n) == IF n < 0 THEN <<"-">> \o NumText(0 - n) ELSE NumText(n)

Zed          == <<"Z","e","d">>
AlbertStreet == <<"A","l","b","e","r","t"," ","S","t","r","e","e","t">>
ShortStay    == <<"S","h","o","r","t">>

\* raw carpark names: spellings of the known carparks and of an unknown one
RawNames ==
    { Civic,
      <<"c","i","v","i","c">>,
      <<" ","C","I","V","I","C","tab">>,
      <<"C","i_acute","v","i","c">>,
      VictoriaSt,
      <<"v","i","c","t","o","r","i","a","nbsp"," ","s","t">>,
      VictoriaStreet,
      AlbertStreet,
      <<"A_acute","L","B","E","R","T"," "," ","s","t","r","e","e","t"," ">>,
      Downtown,
      <<"d","o","w","n","t","o","w","n">>,
      Zed,
      <<"z","e","d">>,
      <<" ","Z","E","D">>,
      IGNORE,
      <<>> }

Obj(members) == <<Tok("{")>> \o members \o <<Tok("}")>>
Arr(elems)   == <<Tok("[")>> \o elems \o <<Tok("]")>>
Member(key, v) == <<KeyTok(key), AtomTok(v)>>

\* the text of a record with the given members, separated by commas
RECURSIVE Commas(_)
Commas(parts) ==
    IF parts = <<>> THEN <<>>
    ELSE IF Len(parts) = 1 THEN parts[1]
    ELSE parts[1] \o <<Tok(",")>> \o Commas(Tail(parts))

NonEmpty(parts) == SelectSeq(parts, LAMBDA x : x # <<>>)

Rec(members) == Obj(Commas(NonEmpty(members)))

\* marks a field the record does not have
Absent == [k |-> "absent", n |-> 0, s |-> <<>>, keys |-> <<>>, items |-> <<>>]

\* the member, or nothing when the field is absent
Field(key, v) == IF v.k = "absent" THEN <<>> ELSE Member(key, v)

RecA(n) == Rec(<<Member("carParkName", StrV(n)), Member("availableSpaces", IntV(1))>>)
RecB(n) == Rec(<<Member("name", StrV(n)), Member("available", IntV(2)),
                 Member("category", StrV(ShortStay))>>)

\* two records with any two raw names
NameBodies == { Arr(Commas(<<RecA(n1), RecB(n2)>>)) : n1 \in RawNames, n2 \in RawNames }

AvailValues ==
    {IntV(n) : n \in 0..MaxAvail}
        \cup {None, IntV(-1), StrV(<<"2">>), StrV(<<"0","7">>), StrV(<<"n","/","a">>),
              StrV(<<>>)}

\* one record with every combination of present and absent fields
FieldBodies ==
    { Arr(Rec(<<Field("carParkName", c), Field("name", n),
                Field("availableSpaces", a), Field("available", b),
                Field("category", o), Field("parkingOption", q)>>)) :
        c \in {Absent, StrV(<<>>), StrV(Civic)},
        n \in {Absent, StrV(Zed)},
        a \in {Absent} \cup AvailValues,
        b \in {Absent, IntV(0), IntV(1)},
        o \in {Absent, StrV(<<>>)},
        q \in {StrV(ShortStay)} }

RecLists == { <<>>, RecA(Civic), Commas(<<RecA(Zed), RecB(VictoriaSt)>>) }

Shapes(l) ==
    { Arr(l),
      Obj(<<KeyTok("data")>> \o Arr(l)),
      Obj(<<KeyTok("Result")>> \o Arr(l)),
      Obj(<<KeyTok("other")>> \o Arr(l)),
      Obj(Member("data", IntV(5)) \o <<Tok(","), KeyTok("items")>> \o Arr(l)),
      Obj(<<KeyTok("results")>> \o Arr(<<>>) \o <<Tok(","), KeyTok("items")>> \o Arr(l)),
      <<Tok("[")>> \o l,
      l }

HtmlRows ==
    { <<>>,
      <<RowTok(<<AlbertStreet, ShortStay, <<"1">> >>),
        RowTok(<<VictoriaSt, ShortStay, <<"3">> >>)>> }

Prefixes == { <<>>, <<Tok("ws")>>, <<Tok("text")>> }
Suffixes == { <<>>, <<Tok("ws")>>, <<Tok("text")>>, <<Tok("text"), Tok("}")>> }

\* JSON alone, or wrapped in other text, or followed by an HTML table
ShapeBodies ==
    { pre \o sh \o post \o h :
        pre \in Prefixes, sh \in UNION { Shapes(l) : l \in RecLists },
        post \in Suffixes, h \in HtmlRows }

AvailTexts ==
    {NumText(n) : n \in 0..MaxAvail}
        \cup { <<>>, <<"n","/","a">>, <<"1"," ","f","r","e","e">>, <<"-","2">>,
               <<"1",",","0","0","2">> }

\* one table row with any raw name and any text in the third cell; rows with
\* too few or more cells; markup that is no table
HtmlBodies ==
    { <<Tok("text"), RowTok(<<n, ShortStay, a>>), Tok("text")>> :
        n \in RawNames, a \in AvailTexts }
    \cup { <<RowTok(<<Civic, ShortStay>>), RowTok(<<Zed, <<>>, <<"1">>, <<"x">> >>)>>,
           <<Tok("text"), Tok("{"), Tok("text"), Tok("}"),
             RowTok(<<Zed, ShortStay, <<"1">> >>)>>,
           <<Tok("text")>>,
           <<>> }

\* records that are no objects, names that are no strings, a repeated member,
\* a container that is no list, three records of which one is kept, a count
\* that is no number beside one that is
OddBodies ==
    { Arr(<<AtomTok(IntV(5))>>),
      Arr(<<AtomTok(None)>>),
      Arr(Arr(<<>>)),
      Arr(Rec(<<Member("name", IntV(5))>>)),
      Arr(Rec(<<Member("name", StrV(Civic)), Member("name", StrV(Zed)),
                Member("available", IntV(1))>>)),
      Obj(Member("data", StrV(Civic))),
      Arr(Commas(<<RecA(AlbertStreet), RecB(Downtown), RecA(Civic)>>)),
      Arr(Commas(<<RecA(Civic),
                   Rec(<<Member("name", StrV(Civic)),
                         Member("available", StrV(<<"n","/","a">>))>>)>>)) }

Bodies == NameBodies \cup FieldBodies \cup ShapeBodies \cup HtmlBodies \cup OddBodies

Response(body, content_type) == [body |-> body, content_type |-> content_type]

\* every body as text/html; the JSON shapes also as application/json
Responses ==
    { Response(b, "text/html") : b \in Bodies }
    \cup { Response(b, "application/json") : b \in ShapeBodies \cup OddBodies }

\* the responses of the run-to-run specifications
RunResponses ==
    { Response(<<Tok("text")>>, "text/html"),
      Response(<<Tok("text"), RowTok(<<Civic, ShortStay, <<"2">> >>)>>, "text/html"),
      Response(Arr(Commas(<<RecA(VictoriaSt), RecB(Zed)>>)), "application/json"),
      Response(Arr(RecA(AlbertStreet)), "application/json"),
      Response(Arr(<<AtomTok(IntV(5))>>), "application/json") }

\* the responses of the overlapping runs
RaceResponses ==
    { Response(<<Tok("text")>>, "text/html"),
      Response(<<Tok("text"), RowTok(<<Civic, ShortStay, <<"2">> >>)>>, "text/html") }

CapFile(rows) == [exists |-> TRUE, header |-> TRUE, rows |-> rows]

CapFiles ==
    { NoFile }
    \cup { CapFile(<<CapRow(Civic, IntText(t)),
                     CapRow(VictoriaStreet, <<"x">>),
                     CapRow(<<" ","Z","e","d"," ">>, <<" ">> \o IntText(t + 1))>>) :
            t \in (-1)..MaxTotal }
    \cup { CapFile(<<CapRow(Civic, <<"1">>), CapRow(<<>>, <<"2">>),
                     CapRow(Civic, IntText(MaxTotal))>>) }


(***************************************************************************)
(* The state: the files of the data directory, and each run's position     *)
(* and local variables.  Each process is one invocation of the script at   *)
(* a time.                                                                 *)
(***************************************************************************)
Procs == {1, 2}

VARIABLES
    capacity_file,  \* data/capacity_lookup.csv
    latest,         \* data/latest.csv
    history,        \* data/history.csv
    raw_files,      \* the data/raw_<time>.html files, by the time in their name
    clock,          \* runs started so far; a run's time is its ordinal
    last_writer,    \* the process that wrote history.csv last, 0 before any
    pc,             \* where each process is in run()
    ts_utc, body, content_type, data, rows, canon, df, old, combined,
    pre             \* the output files as the run found them when it started

vars == <<capacity_file, latest, history, raw_files, clock, last_writer, pc,
          ts_utc, body, content_type, data, rows, canon, df, old, combined, pre>>

files  == <<latest, history, raw_files>>
locals == <<ts_utc, body, content_type, data, rows, canon, df, old, combined, pre>>

NoFrame == DataFrame(<<>>)
NoFiles == [latest |-> NoFile, history |-> NoFile, raw_files |-> {}]

InitLocals ==
    /\ pc           = [p \in Procs |-> "idle"]
    /\ ts_utc       = [p \in Procs |-> <<>>]
    /\ body         = [p \in Procs |-> <<>>]
    /\ content_type = [p \in Procs |-> ""]
    /\ data         = [p \in Procs |-> None]
    /\ rows         = [p \in Procs |-> <<>>]
    /\ canon        = [p \in Procs |-> <<>>]
    /\ df           = [p \in Procs |-> NoFrame]
    /\ old          = [p \in Procs |-> NoFile]
    /\ combined     = [p \in Procs |-> NoFrame]
    /\ pre          = [p \in Procs |-> NoFiles]

\* a fresh data directory
Init ==
    /\ capacity_file \in CapFiles
    /\ latest = NoFile
    /\ history = NoFile
    /\ raw_files = {}
    /\ clock = 0
    /\ last_writer = 0
    /\ InitLocals

\* a fresh data directory with one capacity table
InitRace ==
    /\ capacity_file = CapFile(<<CapRow(Civic, IntText(MaxTotal))>>)
    /\ latest = NoFile
    /\ history = NoFile
    /\ raw_files = {}
    /\ clock = 0
    /\ last_writer = 0
    /\ InitLocals

\* a data directory in which no run yet, or one run without rows, has
\* written the history
InitExtract ==
    /\ \/ capacity_file \in CapFiles /\ history = NoFile
       \/ capacity_file = NoFile /\ history = to_csv(NoFrame)
    /\ latest = NoFile
    /\ raw_files = {}
    /\ clock = 0
    /\ last_writer = 0
    /\ InitLocals

\* line 135: the run takes its timestamp
Start(p) ==
    /\ pc[p] = "idle"
    /\ clock < MaxRuns
    /\ clock' = clock + 1
    /\ ts_utc' = [ts_utc EXCEPT ![p] = <<"T">> \o NumText(clock + 1)]
    /\ pre' = [pre EXCEPT ![p] =
                  [latest |-> latest, history |-> history, raw_files |-> raw_files]]
    /\ pc' = [pc EXCEPT ![p] = "fetch"]
    /\ UNCHANGED <<capacity_file, files, last_writer,
                   body, content_type, data, rows, canon, df, old, combined>>

\* fetch_raw saving the body before it looks at the status
FetchErrorAfterSave(p) ==
    /\ pc[p] = "fetch"
    /\ raw_files' = raw_files \cup {ts_utc[p]}
    /\ pc' = [pc EXCEPT ![p] = "fetch_failed"]
    /\ UNCHANGED <<capacity_file, latest, history, clock, last_writer, locals>>

\* lines 76-77: requests.get or raise_for_status raises; the error leaves run()
FetchError(p) ==
    /\ pc[p] = "fetch"
    /\ pc' = [pc EXCEPT ![p] = "fetch_failed"]
    /\ UNCHANGED <<capacity_file, files, clock, last_writer, locals>>

\* lines 76-81: the response arrives and is saved as raw_<time>.html
FetchOk(p, resp) ==
    /\ pc[p] = "fetch"
    /\ raw_files' = raw_files \cup {ts_utc[p]}
    /\ body' = [body EXCEPT ![p] = resp.body]
    /\ content_type' = [content_type EXCEPT ![p] = resp.content_type]
    /\ pc' = [pc EXCEPT ![p] = "parse"]
    /\ UNCHANGED <<capacity_file, latest, history, clock, last_writer,
                   ts_utc, data, rows, canon, df, old, combined, pre>>

\* fetch_raw()
fetch_raw(p, responses) ==
    \/ FetchError(p)
    \/ \E resp \in responses : FetchOk(p, resp)

\* lines 139-143
ParsedData(b, ct) ==
    LET first == IF ct = "application/json" THEN try_parse_json(b) ELSE None
    IN  IF first = None THEN try_parse_json(b) ELSE first

Parse(p) ==
    /\ pc[p] = "parse"
    /\ data' = [data EXCEPT ![p] = ParsedData(body[p], content_type[p])]
    /\ pc' = [pc EXCEPT ![p] = "rows"]
    /\ UNCHANGED <<capacity_file, files, clock, last_writer,
                   ts_utc, body, content_type, rows, canon, df, old, combined, pre>>

\* lines 145-164; an AttributeError leaves run()
Extract(p) ==
    /\ pc[p] = "rows"
    /\ IF JsonRowsRaise(data[p])
       THEN /\ pc' = [pc EXCEPT ![p] = "crashed"]
            /\ UNCHANGED rows
       ELSE /\ rows' = [rows EXCEPT ![p] = ExtractRows(data[p], body[p])]
            /\ pc' = [pc EXCEPT ![p] = "enrich"]
    /\ UNCHANGED <<capacity_file, files, clock, last_writer,
                   ts_utc, body, content_type, data, canon, df, old, combined, pre>>

\* lines 166-198; an AttributeError leaves run()
Enrich(p) ==
    /\ pc[p] = "enrich"
    /\ IF EnrichRaises(rows[p])
       THEN /\ pc' = [pc EXCEPT ![p] = "crashed"]
            /\ UNCHANGED <<canon, df>>
       ELSE /\ canon' = [canon EXCEPT ![p] = Canons(rows[p])]
            /\ df' = [df EXCEPT ![p] =
                        DataFrame(NormRows(ts_utc[p], rows[p],
                                           load_capacity_lookup(capacity_file)))]
            /\ pc' = [pc EXCEPT ![p] = "write_latest"]
    /\ UNCHANGED <<capacity_file, files, clock, last_writer,
                   ts_utc, body, content_type, data, rows, old, combined, pre>>

\* line 199
WriteLatest(p) ==
    /\ pc[p] = "write_latest"
    /\ latest' = to_csv(df[p])
    /\ pc' = [pc EXCEPT ![p] = "read_history"]
    /\ UNCHANGED <<capacity_file, history, raw_files, clock, last_writer, locals>>

\* lines 201-205; an EmptyDataError leaves run()
ReadHistory(p) ==
    /\ pc[p] = "read_history"
    /\ IF history.exists /\ ReadCsvRaises(history)
       THEN /\ pc' = [pc EXCEPT ![p] = "history_failed"]
            /\ UNCHANGED <<old, combined>>
       ELSE /\ old' = [old EXCEPT ![p] = history]
            /\ combined' = [combined EXCEPT ![p] =
                              IF history.exists
                              THEN concat(read_csv(history), df[p])
                              ELSE df[p]]
            /\ pc' = [pc EXCEPT ![p] = "write_history"]
    /\ UNCHANGED <<capacity_file, files, clock, last_writer,
                   ts_utc, body, content_type, data, rows, canon, df, pre>>

\* line 206 appending the batch to the file as it is when written
WriteHistoryAppend(p) ==
    /\ pc[p] = "write_history"
    /\ history' = IF history.exists /\ ~ReadCsvRaises(history)
                  THEN to_csv(concat(read_csv(history), df[p]))
                  ELSE to_csv(df[p])
    /\ last_writer' = p
    /\ pc' = [pc EXCEPT ![p] = "done"]
    /\ UNCHANGED <<capacity_file, latest, raw_files, clock, locals>>

\* line 206
WriteHistory(p) ==
    /\ pc[p] = "write_history"
    /\ history' = to_csv(combined[p])
    /\ last_writer' = p
    /\ pc' = [pc EXCEPT ![p] = "done"]
    /\ UNCHANGED <<capacity_file, latest, raw_files, clock, locals>>

Ended(p) == pc[p] \in {"done", "fetch_failed", "crashed", "history_failed"}

\* the process exits; the scheduler may start it again
Exit(p) ==
    /\ Ended(p)
    /\ pc' = [pc EXCEPT ![p] = "idle"]
    /\ ts_utc' = [ts_utc EXCEPT ![p] = <<>>]
    /\ body' = [body EXCEPT ![p] = <<>>]
    /\ content_type' = [content_type EXCEPT ![p] = ""]
    /\ data' = [data EXCEPT ![p] = None]
    /\ rows' = [rows EXCEPT ![p] = <<>>]
    /\ canon' = [canon EXCEPT ![p] = <<>>]
    /\ df' = [df EXCEPT ![p] = NoFrame]
    /\ old' = [old EXCEPT ![p] = NoFile]
    /\ combined' = [combined EXCEPT ![p] = NoFrame]
    /\ pre' = [pre EXCEPT ![p] = NoFiles]
    /\ UNCHANGED <<capacity_file, files, clock, last_writer>>

\* run() after its first line, with the responses the endpoint may send
run(p, responses) ==
    \/ fetch_raw(p, responses)
    \/ Parse(p)
    \/ Extract(p)
    \/ Enrich(p)
    \/ WriteLatest(p)
    \/ ReadHistory(p)
    \/ WriteHistory(p)
    \/ Exit(p)

\* runs one after the other, as the scheduler starts them
Next == Start(1) \/ run(1, RunResponses)

Spec == Init /\ [][Next]_vars

\* one run on every response
NextExtract == (clock = 0 /\ Start(1)) \/ run(1, Responses)

SpecExtract == InitExtract /\ [][NextExtract]_vars

\* two invocations that may overlap
NextRace == \E p \in Procs : Start(p) \/ run(p, RaceResponses)

SpecRace == InitRace /\ [][NextRace]_vars

(***************************************************************************)
(* Properties.                                                             *)
(***************************************************************************)
\* the run of p has computed its batch (line 198 is behind it)
HasBatch(p) ==
    pc[p] \in {"write_latest", "read_history", "write_history", "done",
               "history_failed"}

\* the run of p has extracted its rows (line 164 is behind it)
HasRows(p) == pc[p] = "enrich" \/ HasBatch(p)

\* the run of p has parsed the body (line 143 is behind it)
HasData(p) == pc[p] \in {"rows", "crashed"} \/ HasRows(p)

Key(name) == _norm(name)

AliasKeys == { ALIASES[i][1] : i \in 1..Len(ALIASES) }

\* a carpark cell or value that must not be persisted
Unwanted(cell) ==
    /\ cell.k = "str"
    /\ \/ cell.s = IGNORE
       \/ Key(cell.s) \in IGNORE_CARPARKS
       \/ Key(cell.s) \in STOP_COLLECTING

\* the canonical names of the raw rows whose raw key is not ignored and
\* whose canonical name is neither the sentinel nor stopped
RECURSIVE WantedCanons(_, _)
WantedCanons(raw_rows, canons) ==
    IF raw_rows = <<>> THEN <<>>
    ELSE LET n      == Len(raw_rows)
             before == WantedCanons(SubSeq(raw_rows, 1, n - 1), SubSeq(canons, 1, n - 1))
         IN  IF \/ Key(raw_rows[n].carpark.s) \in IGNORE_CARPARKS
                \/ canons[n] = IGNORE
                \/ Key(canons[n]) \in STOP_COLLECTING
             THEN before
             ELSE Append(before, canons[n])

\* C1: no row of latest.csv, of history.csv or of a run's batch carries the
\* IGNORE sentinel, a name whose key is in the ignore set or a name whose key
\* is in the stop-collecting set, and the batch holds, in order, exactly the
\* canonical names of the raw rows that are neither ignored nor stopped.
NoUnwantedCarpark ==
    /\ \A i \in 1..Len(latest.rows) : ~Unwanted(latest.rows[i].carpark)
    /\ \A i \in 1..Len(history.rows) : ~Unwanted(history.rows[i].carpark)
    /\ \A p \in Procs :
          /\ \A i \in 1..Len(df[p].rows) : ~Unwanted(df[p].rows[i].carpark)
          /\ HasBatch(p) =>
                [i \in 1..Len(df[p].rows) |-> df[p].rows[i].carpark.s]
                    = WantedCanons(rows[p], canon[p])

\* a finished run whose raw rows held an ignored name, a stopped name and a
\* name that was kept and written
IgnoredAndStoppedDropped ==
    /\ pc[1] = "done"
    /\ \E i \in 1..Len(rows[1]) : Key(rows[1][i].carpark.s) \in IGNORE_CARPARKS
    /\ \E i \in 1..Len(rows[1]) :
          /\ canon[1][i] # IGNORE
          /\ Key(canon[1][i]) \in STOP_COLLECTING
    /\ Len(latest.rows) = 1
    /\ Len(history.rows) = 1
    /\ Len(rows[1]) = 3

\* C3: after a failed fetch the latest snapshot, the history and the raw
\* files are what they were when the run started, and the run has ended.
FetchFailureTouchesNothing ==
    pc[1] = "fetch_failed" =>
        /\ latest = pre[1].latest
        /\ history = pre[1].history
        /\ raw_files = pre[1].raw_files
        /\ Ended(1)

\* a fetch fails after an earlier run has written both files
FetchFailedAfterGoodRun ==
    /\ pc[1] = "fetch_failed"
    /\ history.rows # <<>>
    /\ latest.rows # <<>>
    /\ raw_files # {}

\* C5, as stated: raw names with equal keys have equal canonical names.
EqualKeysEqualCanon ==
    \A p \in Procs :
        HasBatch(p) =>
            \A i, j \in 1..Len(rows[p]) :
                Key(rows[p][i].carpark.s) = Key(rows[p][j].carpark.s)
                    => canon[p][i] = canon[p][j]

\* C5, amended: raw names with equal keys have equal canonical names when the
\* key is in the ignore set or the alias table; when it is in neither, each
\* canonical name is the raw name stripped, and the two have equal keys.
EqualKeysEqualCanonIfKnown ==
    \A p \in Procs :
        HasBatch(p) =>
            \A i, j \in 1..Len(rows[p]) :
                LET ni == rows[p][i].carpark.s
                    nj == rows[p][j].carpark.s
                IN  Key(ni) = Key(nj) =>
                        IF Key(ni) \in IGNORE_CARPARKS \cup AliasKeys
                        THEN canon[p][i] = canon[p][j]
                        ELSE /\ canon[p][i] = Strip(ni)
                             /\ canon[p][j] = Strip(nj)
                             /\ Key(canon[p][i]) = Key(canon[p][j])

\* two different spellings of an aliased carpark, and in another run of an
\* ignored one, were canonicalised
TwoSpellingsCanonicalised ==
    /\ HasBatch(1)
    /\ Len(rows[1]) = 2
    /\ rows[1][1].carpark.s # rows[1][2].carpark.s
    /\ Key(rows[1][1].carpark.s) = Key(rows[1][2].carpark.s)
    /\ Key(rows[1][1].carpark.s) \in AliasKeys
    /\ Strip(rows[1][1].carpark.s) # canon[1][1]

\* C6: a batch row has an occupancy exactly when its total and its available
\* count are present, the total is not zero and both convert with int(); and
\* the batch holds a row for every raw row that is not skipped, whatever its
\* occupancy.
OccupancyIffComputable ==
    \A p \in Procs :
        /\ \A i \in 1..Len(df[p].rows) :
              LET r == df[p].rows[i]
              IN  (r.occupancy # None) <=>
                      /\ r.total_spaces # None
                      /\ r.available_spaces # None
                      /\ PyInt(r.total_spaces).ok
                      /\ PyInt(r.available_spaces).ok
                      /\ PyInt(r.total_spaces).n # 0
        /\ HasBatch(p) =>
              Len(df[p].rows) = Len(WantedCanons(rows[p], canon[p]))

\* a written batch with a row whose count converts and whose occupancy is
\* set, and a row whose count does not convert and whose occupancy is null
OccupancyCasesWritten ==
    /\ pc[1] = "done"
    /\ Len(latest.rows) = 2
    /\ \E i, j \in 1..Len(df[1].rows) :
          /\ df[1].rows[i].total_spaces # None
          /\ df[1].rows[i].available_spaces.k = "int"
          /\ df[1].rows[i].occupancy # None
          /\ df[1].rows[j].total_spaces # None
          /\ df[1].rows[j].available_spaces.k = "str"
          /\ ~PyInt(df[1].rows[j].available_spaces).ok
          /\ df[1].rows[j].occupancy = None

\* C10: when two runs that read the same history have both written it, the
\* file holds the rows they read followed by the last writer's batch, and no
\* row of the other run's batch.
LostUpdate ==
    \A p, q \in Procs :
        ( /\ p # q
          /\ pc[p] = "done" /\ pc[q] = "done"
          /\ old[p] = old[q]
          /\ last_writer = q )
        => /\ history.rows = old[q].rows \o to_csv(df[q]).rows
           /\ \A i \in 1..Len(history.rows) :
                 history.rows[i].timestamp_utc # CsvCell(StrV(ts_utc[p]))

\* both runs read the same non-empty history, each had a batch, and the
\* first writer's batch is gone
FirstBatchLost ==
    \E p, q \in Procs :
        /\ p # q
        /\ pc[p] = "done" /\ pc[q] = "done"
        /\ old[p] = old[q]
        /\ old[q].rows # <<>>
        /\ last_writer = q
        /\ df[p].rows # <<>>
        /\ df[q].rows # <<>>
        /\ Len(history.rows) = Len(old[q].rows) + Len(df[q].rows)

\* the value of the first of two fields that the record has, else the default
FirstPresent(rec, first, second, default) ==
    IF HasKey(rec, first) THEN DictGet(rec, first)
    ELSE IF HasKey(rec, second) THEN DictGet(rec, second)
    ELSE default

\* C2: a run that produced a batch of m rows over a history of k rows ends
\* with a history of the k rows, unchanged and in order, followed by the
\* batch.
HistoryAppend ==
    pc[1] \in {"done", "history_failed"} =>
        /\ history.exists
        /\ history.rows = pre[1].history.rows \o to_csv(df[1]).rows

\* C4: a run whose extraction yields no rows completes without error, writes
\* an empty latest snapshot and leaves the rows of the history as they were.
EmptyRunCompletes ==
    (HasBatch(1) /\ rows[1] = <<>>) =>
        /\ pc[1] # "history_failed"
        /\ pc[1] \in {"read_history", "write_history", "done"}
              => latest.exists /\ latest.rows = <<>>
        /\ pc[1] = "done" => history.rows = pre[1].history.rows

\* C7: an occupancy that is not null lies in [0, 1].
OccupancyInUnitRange ==
    \A p \in Procs :
        \A i \in 1..Len(df[p].rows) :
            df[p].rows[i].occupancy # None =>
                /\ df[p].rows[i].occupancy.n >= 0
                /\ df[p].rows[i].occupancy.n <= 10000

\* C8: each field of the raw row of a JSON record is the value of the first
\* of its two field names that the record has, whatever that value is, and
\* the empty string (null for the count) when it has neither.
FirstPresentFieldTaken ==
    \A p \in Procs :
        (HasRows(p) /\ JsonRows(data[p]) # <<>>) =>
            \A i \in 1..Len(rows[p]) :
                LET rec == RecordList(data[p])[i]
                IN  /\ rows[p][i].available_spaces
                          = FirstPresent(rec, "availableSpaces", "available", None)
                    /\ rows[p][i].carpark
                          = FirstPresent(rec, "carParkName", "name", StrV(<<>>))
                    /\ rows[p][i].parking_option
                          = FirstPresent(rec, "category", "parkingOption", StrV(<<>>))

\* the three strategies tried in order, each falling through when it fails
FallThroughParse(resp_text) ==
    LET txt       == RStripToks(LStripToks(resp_text))
        obj_start == Find(txt, "{")
        obj_end   == RFind(txt, "}")
        arr_start == Find(txt, "[")
        arr_end   == RFind(txt, "]")
        whole     == json_loads(txt)
        obj       == json_loads(SubSeq(txt, obj_start, obj_end))
        arr       == json_loads(SubSeq(txt, arr_start, arr_end))
    IN  IF txt # <<>> /\ txt[1].t \in {"{", "["} /\ whole.ok THEN whole.v
        ELSE IF obj_start # 0 /\ obj_end > obj_start /\ obj.ok /\ obj.v.k = "dict"
             THEN obj.v
        ELSE IF arr_start # 0 /\ arr_end > arr_start /\ arr.ok /\ arr.v.k = "list"
             THEN arr.v
        ELSE None

\* C9: the parsed data is the first value that one of the three strategies
\* parses, and there is none only when all three fail.
ParseFallsThrough ==
    \A p \in Procs : HasData(p) => data[p] = FallThroughParse(body[p])
====
